---- MODULE Spec2Model ----
(***************************************************************************)
(* pomlock: the session scheduler of src/src/pomlock/app.py.               *)
(*                                                                         *)
(* Threads of the process:                                                 *)
(*   main      App.__init__ -> update_overlay_window -> Tk mainloop        *)
(*   scheduler App.run_pomodoro (daemon thread)                            *)
(*   workers   the two `timer` threads of a phase (daemon threads), one    *)
(*             per progress task: cycle_job and session_job                *)
(***************************************************************************)
EXTENDS Integers, Sequences, FiniteSets, TLC

\* ---------------------------------------------------------------- bounds
MaxPomodoro == 1
MaxBreak == 2
MaxCycles == 2
MaxPhases == 6
MaxDuration == 6
MaxBase == 2
MaxArg == 1
MaxQueue == 4
MaxCalls == 5

\* ------------------------------------------------------ program constants
\* pomo_s = pomo_m * 5 (and s_break_s, l_break_s alike)
TicksPerMinute == 5
\* total_time_s = (...) * 60
SecondsPerMinute == 60

Jobs == {"cycle_job", "session_job"}
Dev == {"kbd", "ptr"}
\* the order in which `xinput list` prints the devices
DevOrder == <<"kbd", "ptr">>
Kind == [d \in Dev |-> IF d = "kbd" THEN "keyboard" ELSE "pointer"]
Keys == {"escape", "q", "a"}

VARIABLES
    config,                   \* self.settings, resolved and validated
    crr_cycle,                \* self.crr_cycle
    crr_session,              \* self.crr_session
    total_completed_sessions, \* self.total_completed_sessions
    schedPc,                  \* position of the scheduler thread in run_pomodoro
    phase,                    \* "none" | "pomodoro" | "break": the phase being run
    break_type,               \* local break_type of run_pomodoro
    break_m,                  \* local break_m
    break_s,                  \* local break_s
    completed,                \* task.completed of the two progress tasks
    total,                    \* task.total of the two progress tasks
    worker,                   \* the timer thread of each job: its state, the
                              \* iterations left, and (history) its duration_s,
                              \* its phase and task.completed at its creation
    queue,                    \* self.queue (unbounded FIFO)
    mainPc,                   \* position of the main thread
    mainloop_run,             \* self.mainloop_run
    window,                   \* Tk root: "unmapped" | "shown" | "withdrawn" | "destroyed"
    appBound,                 \* module-level name `app` is bound
    proc,                     \* "running" | "exit0" | "exit1"
    devices,                  \* xinput state of each device: "slave" | "floating"
    errors,                   \* history: number of logger.error calls of run_pomodoro
    phaseLog,                 \* history: kind of every phase begun, "P" | "S" | "L"
    gateLog,                  \* history: DeviceGate calls, with the phase they were made in
    sent,                     \* history: every event put on the queue
    flags,                    \* self.flags: the words of sys.argv[1:] that begin with '-'
    args,                     \* self.args: the argparse namespace
    parser,                   \* the config file, as configparser reads it
    notify_send,              \* environment: notify-send is "present" | "missing"
    notifyLog,                \* history: every _notify call that reached Popen
    state_file                \* the StateSink snapshot file

vars == <<config, crr_cycle, crr_session, total_completed_sessions, schedPc,
          phase, break_type, break_m, break_s, completed, total, worker,
          queue, mainPc, mainloop_run, window, appBound, proc, devices,
          errors, phaseLog, gateLog, sent, flags, args, parser,
          notify_send, notifyLog, state_file>>

cfgVars == <<flags, args, parser>>
schedVars == <<crr_cycle, crr_session, total_completed_sessions, schedPc,
               phase, break_type, break_m, break_s>>
mainVars == <<mainPc, mainloop_run, window, appBound>>
histVars == <<errors, phaseLog, gateLog, sent, notifyLog>>

\* ------------------------------------------------- run_pomodoro's locals
pomo_m == config.pomodoro
pomo_s == pomo_m * TicksPerMinute
s_break_m == config.short_break
s_break_s == s_break_m * TicksPerMinute
l_break_m == config.long_break
l_break_s == l_break_m * TicksPerMinute
cycles == config.cycles
total_time_s == (((pomo_m + s_break_m) * cycles) + (l_break_m - s_break_m)) * SecondsPerMinute

\* the configs parse_config lets through: four strictly positive integers
ValidConfigs ==
    [pomodoro : 1..MaxPomodoro, short_break : 1..MaxBreak,
     long_break : 1..MaxBreak, cycles : 1..MaxCycles, block_input : BOOLEAN,
     notify : {TRUE}]

\* ------------------------------------------------- strings, as Python's str
\* a str is the sequence of its characters; "" is <<>>
UpperCase == <<"A", "B", "C", "D", "E", "F", "G", "H", "I", "J", "K", "L", "M",
               "N", "O", "P", "Q", "R", "S", "T", "U", "V", "W", "X", "Y", "Z">>
LowerCase == <<"a", "b", "c", "d", "e", "f", "g", "h", "i", "j", "k", "l", "m",
               "n", "o", "p", "q", "r", "s", "t", "u", "v", "w", "x", "y", "z">>
Digits == <<"0", "1", "2", "3", "4", "5", "6", "7", "8", "9">>
Whitespace == {" ", "\t"}

\* str.lower()
lower(s) ==
    [i \in 1..Len(s) |->
        IF \E n \in DOMAIN UpperCase : UpperCase[n] = s[i]
        THEN LowerCase[CHOOSE n \in DOMAIN UpperCase : UpperCase[n] = s[i]]
        ELSE s[i]]

\* str.split(): the maximal runs of non-whitespace characters
RECURSIVE split_from(_, _, _)
split_from(s, i, word) ==
    IF i > Len(s) THEN (IF word = <<>> THEN <<>> ELSE <<word>>)
    ELSE IF s[i] \in Whitespace
         THEN (IF word = <<>> THEN <<>> ELSE <<word>>) \o split_from(s, i + 1, <<>>)
         ELSE split_from(s, i + 1, Append(word, s[i]))

split(s) == split_from(s, 1, <<>>)

\* int(v) of a word without whitespace: an optional sign, then decimal digits;
\* anything else raises ValueError (ok = FALSE)
IsDigit(c) == \E n \in DOMAIN Digits : Digits[n] = c
DigitVal(c) == (CHOOSE n \in DOMAIN Digits : Digits[n] = c) - 1

RECURSIVE Decimal(_)
Decimal(ds) ==
    IF ds = <<>> THEN 0
    ELSE Decimal(SubSeq(ds, 1, Len(ds) - 1)) * 10 + DigitVal(ds[Len(ds)])

int(v) ==
    LET signed == v # <<>> /\ v[1] \in {"+", "-"}
        ds == IF signed THEN Tail(v) ELSE v
    IN IF ds # <<>> /\ \A i \in DOMAIN ds : IsDigit(ds[i])
       THEN [ok |-> TRUE,
             v |-> IF signed /\ v[1] = "-" THEN 0 - Decimal(ds) ELSE Decimal(ds)]
       ELSE [ok |-> FALSE, v |-> 0]

\* `' ' in s`
HasSpace(s) == \E i \in DOMAIN s : s[i] = " "

\* dict.get(key, default) of a dict held as a set of <<key, value>> pairs with
\* at most one pair per key
get(d, key, default) ==
    IF \E kv \in d : kv[1] = key
    THEN (CHOOSE kv \in d : kv[1] = key)[2]
    ELSE default

\* dict d updated with the items of dict e
update(d, e) == {kv \in d : ~ \E ev \in e : ev[1] = kv[1]} \cup e

\* --------------------------------------------------------- ARGUMENTS_CONFIG
TimerKeys == {"pomodoro", "short_break", "long_break", "cycles"}
\* the order of the four values in a timer string, and of the final validation
TimerOrder == <<"pomodoro", "short_break", "long_break", "cycles">>

\* the 'default' entries; overlay opacity is held in tenths (0.8 is 8)
get_default_settings ==
    [timer |-> <<"s", "t", "a", "n", "d", "a", "r", "d">>,
     pomodoro |-> 25, short_break |-> 5, long_break |-> 20, cycles |-> 4,
     block_input |-> TRUE, notify |-> TRUE,
     overlay |-> [opacity |-> 8],
     presets |-> {<<<<"s", "t", "a", "n", "d", "a", "r", "d">>, <<"2", "5", " ", "5", " ", "2", "0", " ", "4">>>>,
                  <<<<"u", "l", "t", "r", "a", "d", "i", "a", "n">>, <<"9", "0", " ", "2", "0", " ", "2", "0", " ", "1">>>>,
                  <<<<"f", "i", "f", "t", "y", "_", "t", "e", "n">>, <<"5", "0", " ", "1", "0", " ", "1", "0", " ", "1">>>>}]

\* the 'long' and 'short' entries
LongFlag ==
    [timer |-> "--timer", pomodoro |-> "--pomodoro", short_break |-> "--short-break",
     long_break |-> "--long-break", cycles |-> "--cycles",
     overlay_opacity |-> "--overlay-opacity"]
ShortFlag ==
    [timer |-> "-t", pomodoro |-> "-p", short_break |-> "-s", long_break |-> "-l",
     cycles |-> "-c", overlay_opacity |-> "none"]

\* parse_args with no option given: every dest has its 'default'
NoArgs ==
    [timer |-> get_default_settings.timer,
     pomodoro |-> get_default_settings.pomodoro,
     short_break |-> get_default_settings.short_break,
     long_break |-> get_default_settings.long_break,
     cycles |-> get_default_settings.cycles,
     overlay_opacity |-> get_default_settings.overlay.opacity]

\* no config file at args.config_file
NoFile == [exists |-> FALSE, timer |-> {}, ints |-> [k \in TimerKeys |-> {}], presets |-> {}]

IdleWorker == [st |-> "idle", left |-> 0, duration_s |-> 0, phase |-> 0, base |-> 0]

\* faulty variant of Thread: the timer loops over range(duration_s - 1)
Thread_short(job, duration_s, phaseNo, c) ==
    [st |-> "created", left |-> duration_s - 1, duration_s |-> duration_s,
     phase |-> phaseNo, base |-> c[job]]

\* Thread(target=timer, args=(progress, job, duration_s), daemon=True)
Thread(job, duration_s, phaseNo, c) ==
    [st |-> "created", left |-> duration_s, duration_s |-> duration_s,
     phase |-> phaseNo, base |-> c[job]]

\* ---------------------------------------------------------------- Notifier
\* _notify(msg), lines 700-706: with the notify setting on, Popen(['notify-send',
\* msg]); Popen raises FileNotFoundError when notify-send is missing, which is
\* caught and logged.  The result is the log of calls; nothing is raised.
notify(log, cfg, msg, phaseNo) ==
    IF cfg.notify
    THEN Append(log, [msg |-> msg, phase |-> phaseNo,
                      failed |-> (notify_send = "missing")])
    ELSE log

\* --------------------------------------------------------------- StateSink
\* STATE_FILE (constants.py line 12) as its reader waybar.py expects it; the
\* writer is not part of app.py and follows the design document: one snapshot
\* per phase transition, each replacing the last, cleared at shutdown.
\* start_time is held as the number of the phase.
NoSnapshot ==
    [exists |-> FALSE, action |-> "none", time |-> 0, start_time |-> 0,
     crr_cycle |-> 0, total_cycles |-> 0, crr_session |-> 0]

\* constants.py lines 7 and 12: STATE_FILE = Path(f"/tmp/{APP_NAME}.json"); a
\* path is held as the pieces it is put together from
APP_NAME == "pomlock"
STATE_FILE == <<"/tmp/", APP_NAME, ".json">>

\* waybar.py line 10, its own STATE_FILE = Path("/tmp/pomlock_waybar.json")
waybar_STATE_FILE == <<"/tmp/", "pomlock_waybar", ".json">>

\* what is at `path`: state_file is the file at STATE_FILE, and nothing in the
\* repository writes anywhere else under /tmp
read_text(path) == IF path = STATE_FILE THEN state_file ELSE NoSnapshot

\* waybar.py lines 12-19, get_state(): the content of its STATE_FILE when that
\* file exists, {} (no snapshot) otherwise
get_state == read_text(waybar_STATE_FILE)

\* faulty variant of write_state: an existing snapshot is left as it is
write_state_once(action, minutes, phaseNo) ==
    IF state_file.exists THEN state_file
    ELSE [exists |-> TRUE, action |-> action, time |-> minutes, start_time |-> phaseNo,
          crr_cycle |-> crr_cycle, total_cycles |-> cycles, crr_session |-> crr_session]

write_state(action, minutes, phaseNo) ==
    [exists |-> TRUE, action |-> action, time |-> minutes, start_time |-> phaseNo,
     crr_cycle |-> crr_cycle, total_cycles |-> cycles, crr_session |-> crr_session]

\* the state when parse_config has returned a config (lines 287-288); Spec
\* draws that config and does not track the command line and file behind it
Init ==
    /\ config \in ValidConfigs
    /\ crr_cycle = 1
    /\ crr_session = 1
    /\ total_completed_sessions = 0
    /\ schedPc = "not_started"
    /\ phase = "none"
    /\ break_type = "none"
    /\ break_m = 0
    /\ break_s = 0
    /\ completed = [j \in Jobs |-> 0]
    /\ total = [j \in Jobs |-> 0]
    /\ worker = [j \in Jobs |-> IdleWorker]
    /\ queue = <<>>
    /\ mainPc = "init"
    /\ mainloop_run = FALSE
    /\ window = "unmapped"
    /\ appBound = FALSE
    /\ proc = "running"
    /\ devices = [d \in Dev |-> "slave"]
    /\ errors = 0
    /\ phaseLog = <<>>
    /\ gateLog = <<>>
    /\ sent = <<>>
    /\ flags = {}
    /\ args = NoArgs
    /\ parser = NoFile
    /\ notify_send = "present"
    /\ notifyLog = <<>>
    /\ state_file = NoSnapshot

Running == proc = "running"
SchedAt(p) == Running /\ schedPc = p

\* ------------------------------------------------------------ DeviceGate
\* which lines of `xinput list` a pattern matches
Matches(pattern, devs, d) ==
    CASE pattern = "SLAVE_KBD_PATTERN" -> devs[d] = "slave" /\ Kind[d] = "keyboard"
      [] pattern = "SLAVE_POINTER_PATTERN" -> devs[d] = "slave" /\ Kind[d] = "pointer"
      [] pattern = "FLOATING_SLAVE_PATTERN" -> devs[d] = "floating"

\* _get_xinput_ids: the matching ids in listing order, [] when `xinput list` fails
get_xinput_ids(pattern, devs, listOk) ==
    IF listOk THEN SelectSeq(DevOrder, LAMBDA d : Matches(pattern, devs, d))
    ELSE <<>>

\* _set_device_state: `xinput <action> id` for each id, stopping (break) at the
\* first call that fails; failAt is the index of that call (beyond Len: none)
set_device_state(devs, device_ids, action, failAt) ==
    [d \in Dev |->
        IF \E i \in 1..Len(device_ids) : i < failAt /\ device_ids[i] = d
        THEN (IF action = "disable" THEN "floating" ELSE "slave")
        ELSE devs[d]]

\* what the xinput subprocess calls of one gate call do: each listing succeeds
\* or not, and each run of `xinput <action>` calls fails at some index or not
XinputEnv == [ok1 : BOOLEAN, fail1 : 1..(Cardinality(Dev) + 1),
              ok2 : BOOLEAN, fail2 : 1..(Cardinality(Dev) + 1)]

\* every listing and every `xinput <action>` call succeeds
AllOk == [ok1 |-> TRUE, fail1 |-> Cardinality(Dev) + 1,
          ok2 |-> TRUE, fail2 |-> Cardinality(Dev) + 1]

disable_input_devices(devs, e) ==
    LET d1 == set_device_state(
                  devs, get_xinput_ids("SLAVE_KBD_PATTERN", devs, e.ok1),
                  "disable", e.fail1)
    IN set_device_state(
           d1, get_xinput_ids("SLAVE_POINTER_PATTERN", d1, e.ok2),
           "disable", e.fail2)

\* faulty variant of enable_input_devices: `xinput enable` for the floating
\* devices and `xinput disable` for the others
enable_input_devices_toggle(devs, e) ==
    [d \in Dev |-> IF devs[d] = "floating" THEN "slave" ELSE "floating"]

enable_input_devices(devs, e) ==
    set_device_state(
        devs, get_xinput_ids("FLOATING_SLAVE_PATTERN", devs, e.ok1),
        "enable", e.fail1)

GateCall(name) == [call |-> name, phase |-> Len(phaseLog)]

\* -------------------------------------------- scheduler: run_pomodoro
\* lines 526-570: locals, Progress, the two tasks
Setup ==
    /\ SchedAt("setup")
    /\ total' = [cycle_job |-> pomo_s, session_job |-> total_time_s]
    /\ completed' = [j \in Jobs |-> 0]
    /\ schedPc' = "top"
    /\ UNCHANGED <<config, cfgVars, notify_send, state_file, crr_cycle, crr_session, total_completed_sessions,
                   phase, break_type, break_m, break_s, worker, queue,
                   mainVars, proc, devices, histVars>>

\* lines 580-610: session banner, notification, log, reset of cycle_job,
\* creation of the two pomodoro threads
PomodoroBegin ==
    /\ SchedAt("top")
    /\ Len(phaseLog) < MaxPhases
    /\ phase' = "pomodoro"
    /\ completed' = [completed EXCEPT !["cycle_job"] = 0]
    /\ total' = [total EXCEPT !["cycle_job"] = pomo_s]
    /\ phaseLog' = Append(phaseLog, "P")
    /\ state_file' = write_state("pomodoro", pomo_m, Len(phaseLog'))
    /\ notifyLog' = notify(notifyLog, config, "pomo_notify_msg", Len(phaseLog'))
    /\ worker' = [j \in Jobs |-> Thread(j, pomo_s, Len(phaseLog'), completed')]
    /\ schedPc' = "start1"
    /\ UNCHANGED <<config, cfgVars, notify_send, crr_cycle, crr_session, total_completed_sessions,
                   break_type, break_m, break_s, queue, mainVars, proc,
                   devices, errors, gateLog, sent>>

\* `for t in threads: t.start()`: the cycle_job timer first, then session_job's
StartWorker ==
    /\ \/ /\ SchedAt("start1")
          /\ worker' = [worker EXCEPT !["cycle_job"].st =
                           IF worker["cycle_job"].left = 0 THEN "done" ELSE "running"]
          /\ schedPc' = "start2"
       \/ /\ SchedAt("start2")
          /\ worker' = [worker EXCEPT !["session_job"].st =
                           IF worker["session_job"].left = 0 THEN "done" ELSE "running"]
          /\ schedPc' = "join"
    /\ UNCHANGED <<config, cfgVars, notify_send, state_file, crr_cycle, crr_session, total_completed_sessions,
                   phase, break_type, break_m, break_s, completed, total,
                   queue, mainVars, proc, devices, histVars>>

\* Thread.start() raises RuntimeError (the OS refuses a new thread); the
\* exception is caught at lines 692-693: logged, and run_pomodoro returns
ThreadStartFails ==
    /\ Running
    /\ schedPc \in {"start1", "start2"}
    /\ errors' = errors + 1
    /\ schedPc' = "ended"
    /\ UNCHANGED <<config, cfgVars, notify_send, notifyLog, state_file, crr_cycle, crr_session, total_completed_sessions,
                   phase, break_type, break_m, break_s, completed, total,
                   worker, queue, mainVars, proc, devices,
                   phaseLog, gateLog, sent>>

\* lines 573-576, one iteration of timer(progress, job, duration_s):
\* progress.advance(job); sleep(1).  The thread ends after the last one.
advance(c, job) == [c EXCEPT ![job] = c[job] + 1]

Tick(job) ==
    /\ Running
    /\ worker[job].st = "running"
    /\ completed' = advance(completed, job)
    /\ worker' = [worker EXCEPT ![job].st =
                                      IF worker[job].left = 1 THEN "done" ELSE "running",
                                  ![job].left = worker[job].left - 1]
    /\ UNCHANGED <<config, cfgVars, notify_send, state_file, schedVars, total, queue, mainVars, proc, devices, histVars>>

\* faulty variant of Join: only one of the two threads is waited for
Join_any ==
    /\ SchedAt("join")
    /\ \E j \in Jobs : worker[j].st = "done"
    /\ schedPc' = IF phase = "pomodoro" THEN "select" ELSE "enable"
    /\ UNCHANGED <<config, cfgVars, notify_send, state_file, crr_cycle, crr_session, total_completed_sessions,
                   phase, break_type, break_m, break_s, completed, total,
                   worker, queue, mainVars, proc, devices,
                   histVars>>

\* `for t in threads: t.join()`
Join ==
    /\ SchedAt("join")
    /\ \A j \in Jobs : worker[j].st = "done"
    /\ schedPc' = IF phase = "pomodoro" THEN "select" ELSE "enable"
    /\ UNCHANGED <<config, cfgVars, notify_send, state_file, crr_cycle, crr_session, total_completed_sessions,
                   phase, break_type, break_m, break_s, completed, total,
                   worker, queue, mainVars, proc, devices,
                   histVars>>

\* faulty variant of IsLongBreak: > for >=
IsLongBreak_strict == crr_cycle > cycles

\* lines 619-640: choice of the break, notification, log, reset of cycle_job
IsLongBreak == crr_cycle >= cycles

SelectBreak ==
    /\ SchedAt("select")
    /\ Len(phaseLog) < MaxPhases
    /\ break_m' = IF IsLongBreak THEN l_break_m ELSE s_break_m
    /\ break_s' = IF IsLongBreak THEN l_break_s ELSE s_break_s
    /\ break_type' = IF IsLongBreak THEN "Long break" ELSE "Short break"
    /\ phase' = "break"
    /\ completed' = [completed EXCEPT !["cycle_job"] = 0]
    /\ total' = [total EXCEPT !["cycle_job"] = break_s']
    /\ phaseLog' = Append(phaseLog, IF break_type' = "Long break" THEN "L" ELSE "S")
    /\ state_file' = write_state(IF break_type' = "Long break" THEN "long_break"
                                 ELSE "short_break", break_m', Len(phaseLog'))
    /\ notifyLog' = notify(notifyLog, config, "break_notify_msg", Len(phaseLog'))
    /\ schedPc' = "disable"
    /\ UNCHANGED <<config, cfgVars, notify_send, crr_cycle, crr_session, total_completed_sessions,
                   worker, queue, mainVars, proc, devices,
                   errors, gateLog, sent>>

\* faulty variant of DisableInput: a failed xinput call is not caught inside
\* DeviceGate; it reaches run_pomodoro's `except Exception`, which logs it and
\* returns
DisableInput_abort ==
    /\ SchedAt("disable")
    /\ IF config.block_input
       THEN \E e \in XinputEnv :
               /\ devices' = disable_input_devices(devices, e)
               /\ gateLog' = Append(gateLog, GateCall("disable"))
               /\ IF \E d \in Dev : devices'[d] = "slave"
                  THEN errors' = errors + 1 /\ schedPc' = "ended"
                  ELSE errors' = errors /\ schedPc' = "put"
       ELSE /\ UNCHANGED <<devices, gateLog, errors>>
            /\ schedPc' = "put"
    /\ UNCHANGED <<config, cfgVars, notify_send, notifyLog, state_file, crr_cycle, crr_session, total_completed_sessions,
                   phase, break_type, break_m, break_s, completed, total,
                   worker, queue, mainVars, proc, phaseLog, sent>>

\* faulty variant of DisableInput: block_input is not consulted
DisableInput_always ==
    /\ SchedAt("disable")
    /\ \E e \in XinputEnv :
          /\ devices' = disable_input_devices(devices, e)
          /\ gateLog' = Append(gateLog, GateCall("disable"))
    /\ schedPc' = "put"
    /\ UNCHANGED <<config, cfgVars, notify_send, notifyLog, state_file, crr_cycle, crr_session, total_completed_sessions,
                   phase, break_type, break_m, break_s, completed, total,
                   worker, queue, mainVars, proc, errors, phaseLog, sent>>

\* lines 642-643, the xinput calls doing one of the things in Env
DisableInputIn(Env) ==
    /\ SchedAt("disable")
    /\ IF config.block_input
       THEN \E e \in Env :
               /\ devices' = disable_input_devices(devices, e)
               /\ gateLog' = Append(gateLog, GateCall("disable"))
       ELSE UNCHANGED <<devices, gateLog>>
    /\ schedPc' = "put"
    /\ UNCHANGED <<config, cfgVars, notify_send, notifyLog, state_file, crr_cycle, crr_session, total_completed_sessions,
                   phase, break_type, break_m, break_s, completed, total,
                   worker, queue, mainVars, proc, errors, phaseLog, sent>>

DisableInput == DisableInputIn(XinputEnv)

\* faulty variant of PutBreak: the queue.put is made only under block_input
PutBreak_guarded ==
    /\ SchedAt("put")
    /\ worker' = [j \in Jobs |->
                     [st |-> "created", left |-> break_s, duration_s |-> break_s,
                      phase |-> Len(phaseLog), base |-> completed[j]]]
    /\ IF config.block_input
       THEN /\ queue' = Append(queue, [type |-> "break", msg |-> break_s])
            /\ sent' = Append(sent, [ev |-> [type |-> "break", msg |-> break_s],
                                     phase |-> Len(phaseLog)])
       ELSE UNCHANGED <<queue, sent>>
    /\ schedPc' = "start1"
    /\ UNCHANGED <<config, cfgVars, notify_send, notifyLog, state_file, crr_cycle, crr_session, total_completed_sessions,
                   phase, break_type, break_m, break_s, completed, total,
                   mainVars, proc, devices, errors, phaseLog,
                   gateLog>>

\* faulty variant of PutBreak: the queue is Queue(maxsize=1), put blocks while
\* an earlier event is unconsumed
PutBreak_bounded ==
    /\ SchedAt("put")
    /\ queue = <<>>
    /\ worker' = [j \in Jobs |->
                     [st |-> "created", left |-> break_s, duration_s |-> break_s,
                      phase |-> Len(phaseLog), base |-> completed[j]]]
    /\ queue' = Append(queue, [type |-> "break", msg |-> break_s])
    /\ sent' = Append(sent, [ev |-> [type |-> "break", msg |-> break_s],
                             phase |-> Len(phaseLog)])
    /\ schedPc' = "start1"
    /\ UNCHANGED <<config, cfgVars, notify_send, notifyLog, state_file, crr_cycle, crr_session, total_completed_sessions,
                   phase, break_type, break_m, break_s, completed, total,
                   mainVars, proc, devices, errors, phaseLog,
                   gateLog>>

\* faulty variant of PutBreak: the queue is a LifoQueue, the event goes in front
PutBreak_front ==
    /\ SchedAt("put")
    /\ worker' = [j \in Jobs |->
                     [st |-> "created", left |-> break_s, duration_s |-> break_s,
                      phase |-> Len(phaseLog), base |-> completed[j]]]
    /\ queue' = <<[type |-> "break", msg |-> break_s]>> \o queue
    /\ sent' = Append(sent, [ev |-> [type |-> "break", msg |-> break_s],
                             phase |-> Len(phaseLog)])
    /\ schedPc' = "start1"
    /\ UNCHANGED <<config, cfgVars, notify_send, notifyLog, state_file, crr_cycle, crr_session, total_completed_sessions,
                   phase, break_type, break_m, break_s, completed, total,
                   mainVars, proc, devices, errors, phaseLog,
                   gateLog>>

\* faulty variant of PutBreak: the scheduler thread also puts the window on
\* screen itself (deiconify)
PutBreak_shows ==
    /\ SchedAt("put")
    /\ worker' = [j \in Jobs |->
                     [st |-> "created", left |-> break_s, duration_s |-> break_s,
                      phase |-> Len(phaseLog), base |-> completed[j]]]
    /\ queue' = Append(queue, [type |-> "break", msg |-> break_s])
    /\ sent' = Append(sent, [ev |-> [type |-> "break", msg |-> break_s],
                             phase |-> Len(phaseLog)])
    /\ window' = "shown"
    /\ schedPc' = "start1"
    /\ UNCHANGED <<config, cfgVars, notify_send, notifyLog, state_file, crr_cycle, crr_session, total_completed_sessions,
                   phase, break_type, break_m, break_s, completed, total,
                   mainPc, mainloop_run, appBound, proc, devices, errors, phaseLog,
                   gateLog>>

\* lines 645-654: creation of the two break threads, then queue.put
BreakEvent(duration_s) == [type |-> "break", msg |-> duration_s]

PutBreak ==
    /\ SchedAt("put")
    /\ worker' = [j \in Jobs |-> Thread(j, break_s, Len(phaseLog), completed)]
    /\ queue' = Append(queue, BreakEvent(break_s))
    /\ sent' = Append(sent, [ev |-> BreakEvent(break_s), phase |-> Len(phaseLog)])
    /\ schedPc' = "start1"
    /\ UNCHANGED <<config, cfgVars, notify_send, notifyLog, state_file, crr_cycle, crr_session, total_completed_sessions,
                   phase, break_type, break_m, break_s, completed, total,
                   mainVars, proc, devices, errors, phaseLog,
                   gateLog>>

\* faulty variant of EnableInputIn: the break ends without the call of
\* enable_input_devices
EnableInputIn_skip(Env) ==
    /\ SchedAt("enable")
    /\ schedPc' = "update"
    /\ UNCHANGED <<config, cfgVars, notify_send, notifyLog, state_file, crr_cycle, crr_session, total_completed_sessions,
                   phase, break_type, break_m, break_s, completed, total,
                   worker, queue, mainVars, proc, errors, phaseLog, sent,
                   devices, gateLog>>

\* lines 662-663, the xinput calls doing one of the things in Env
EnableInputIn(Env) ==
    /\ SchedAt("enable")
    /\ IF config.block_input
       THEN \E e \in Env :
               /\ devices' = enable_input_devices(devices, e)
               /\ gateLog' = Append(gateLog, GateCall("enable"))
       ELSE UNCHANGED <<devices, gateLog>>
    /\ schedPc' = "update"
    /\ UNCHANGED <<config, cfgVars, notify_send, notifyLog, state_file, crr_cycle, crr_session, total_completed_sessions,
                   phase, break_type, break_m, break_s, completed, total,
                   worker, queue, mainVars, proc, errors, phaseLog, sent>>

EnableInput == EnableInputIn(XinputEnv)

\* faulty variant of SessionCompleted: total_completed_sessions is not counted, and
\* the cycle counter is not reset
SessionCompleted_noReset ==
    /\ SchedAt("update")
    /\ crr_cycle >= cycles
    /\ completed' = [j \in Jobs |-> 0]
    /\ total' = [cycle_job |-> pomo_s, session_job |-> total_time_s]
    /\ crr_session' = crr_session + 1
    /\ schedPc' = "top"
    /\ UNCHANGED <<config, cfgVars, notify_send, state_file, crr_cycle, total_completed_sessions, phase,
                   break_type, break_m, break_s, worker, queue, mainVars, proc,
                   devices, histVars>>

\* lines 666-683: the session is completed
SessionCompleted ==
    /\ SchedAt("update")
    /\ crr_cycle >= cycles
    /\ completed' = [j \in Jobs |-> 0]
    /\ total' = [cycle_job |-> pomo_s, session_job |-> total_time_s]
    /\ crr_session' = crr_session + 1
    /\ total_completed_sessions' = total_completed_sessions + 1
    /\ crr_cycle' = 1
    /\ schedPc' = "top"
    /\ UNCHANGED <<config, cfgVars, notify_send, state_file, phase, break_type, break_m, break_s, worker, queue,
                   mainVars, proc, devices, histVars>>

\* faulty variant of CycleCompleted: the cycle counter is left as it is
CycleCompleted_stuck ==
    /\ SchedAt("update")
    /\ ~(crr_cycle >= cycles)
    /\ schedPc' = "top"
    /\ UNCHANGED <<config, cfgVars, notify_send, state_file, crr_cycle, crr_session, total_completed_sessions,
                   phase, break_type, break_m, break_s, completed, total, worker,
                   queue, mainVars, proc, devices, histVars>>

\* faulty variant of CycleCompleted: the end of a short break counts a session
CycleCompleted_countsSession ==
    /\ SchedAt("update")
    /\ ~(crr_cycle >= cycles)
    /\ crr_cycle' = crr_cycle + 1
    /\ crr_session' = crr_session + 1
    /\ schedPc' = "top"
    /\ UNCHANGED <<config, cfgVars, notify_send, state_file, total_completed_sessions, phase,
                   break_type, break_m, break_s, completed, total, worker,
                   queue, mainVars, proc, devices, histVars>>

\* faulty variant of CycleCompleted: the cycle counter is also incremented
\* after the last cycle of the session
CycleCompleted_late ==
    /\ SchedAt("update")
    /\ ~(crr_cycle > cycles)
    /\ crr_cycle' = crr_cycle + 1
    /\ schedPc' = "top"
    /\ UNCHANGED <<config, cfgVars, notify_send, state_file, crr_session, total_completed_sessions, phase,
                   break_type, break_m, break_s, completed, total, worker,
                   queue, mainVars, proc, devices, histVars>>

\* lines 684-690: the cycle is completed
CycleCompleted ==
    /\ SchedAt("update")
    /\ ~(crr_cycle >= cycles)
    /\ crr_cycle' = crr_cycle + 1
    /\ schedPc' = "top"
    /\ UNCHANGED <<config, cfgVars, notify_send, state_file, crr_session, total_completed_sessions, phase,
                   break_type, break_m, break_s, completed, total, worker,
                   queue, mainVars, proc, devices, histVars>>

\* ------------------------------------------------- main thread: App, __main__
\* lines 292-293, then the call of update_overlay_window (blocks in queue.get)
StartScheduler ==
    /\ Running
    /\ mainPc = "init"
    /\ schedPc' = "setup"
    /\ mainPc' = "get"
    /\ UNCHANGED <<config, cfgVars, notify_send, state_file, crr_cycle, crr_session, total_completed_sessions,
                   phase, break_type, break_m, break_s, completed, total,
                   worker, queue, mainloop_run, window, appBound, proc,
                   devices, histVars>>

\* the main thread leaves the module (or dies on an uncaught exception): the
\* process exits with `status`, and its daemon threads (scheduler, timers),
\* its progress tasks and its queue go with it
ProcessExits(status) ==
    /\ proc' = status
    /\ mainPc' = "returned"
    /\ schedPc' = "dead"
    /\ worker' = [j \in Jobs |-> IdleWorker]
    /\ completed' = [j \in Jobs |-> 0]
    /\ total' = [j \in Jobs |-> 0]
    /\ queue' = <<>>
    /\ state_file' = NoSnapshot      \* StateSink: deleted on shutdown

\* faulty variant of update_overlay_window: an "exit" item is dropped and the
\* next item is waited for
update_overlay_window_skipExit ==
    /\ Running
    /\ mainPc = "get"
    /\ queue # <<>>
    /\ queue' = Tail(queue)
    /\ IF Head(queue).type = "exit"
       THEN UNCHANGED <<window, mainPc, mainloop_run>>
       ELSE /\ window' = "shown"
            /\ mainPc' = "mainloop"
            /\ mainloop_run' = TRUE
    /\ UNCHANGED <<config, cfgVars, notify_send, state_file, schedVars, completed,
                   total, worker, appBound, proc, devices, histVars>>

\* lines 329-358: queue.get() returns an item.  "exit": destroy and return (the
\* mainloop, if entered, ends, App() returns and the process exits).  "break":
\* the countdown is started and the window is shown, by entering mainloop()
\* the first time and by deiconify() afterwards.
update_overlay_window ==
    /\ Running
    /\ mainPc = "get"
    /\ queue # <<>>
    /\ IF Head(queue).type = "exit"
       THEN /\ window' = "destroyed"
            /\ appBound' = TRUE
            /\ ProcessExits("exit0")
            /\ UNCHANGED mainloop_run
       ELSE /\ queue' = Tail(queue)
            /\ window' = "shown"
            /\ mainPc' = "mainloop"
            /\ mainloop_run' = TRUE
            /\ UNCHANGED <<appBound, proc, schedPc, worker, completed, total,
                           state_file>>
    /\ UNCHANGED <<config, cfgVars, notify_send, crr_cycle, crr_session, total_completed_sessions,
                   phase, break_type, break_m, break_s, devices, histVars>>

\* faulty variant of update_overlay_timer: destroy() for withdraw()
update_overlay_timer_destroy ==
    /\ Running
    /\ mainPc = "mainloop"
    /\ window' = "destroyed"
    /\ mainPc' = "get"
    /\ UNCHANGED <<config, cfgVars, notify_send, state_file, schedVars, completed, total, worker, queue,
                   mainloop_run, appBound, proc, devices, histVars>>

\* lines 341-346: the countdown callback finds remaining_s <= 0: withdraw(),
\* then update_overlay_window() again, which blocks in queue.get()
update_overlay_timer ==
    /\ Running
    /\ mainPc = "mainloop"
    /\ window' = "withdrawn"
    /\ mainPc' = "get"
    /\ UNCHANGED <<config, cfgVars, notify_send, state_file, schedVars, completed, total, worker, queue,
                   mainloop_run, appBound, proc, devices, histVars>>

\* lines 695-698: a key press delivered by the mainloop.  escape or q destroy
\* the window: mainloop() returns, App() returns, the module ends and the
\* process exits.
on_key_press ==
    /\ Running
    /\ mainPc = "mainloop"
    /\ \E keysym \in Keys :
          IF keysym \in {"escape", "q"}
          THEN /\ window' = "destroyed"
               /\ appBound' = TRUE
               /\ ProcessExits("exit0")
          ELSE UNCHANGED <<window, mainPc, appBound, proc, schedPc, worker,
                           completed, total, queue, state_file>>
    /\ UNCHANGED <<config, cfgVars, notify_send, crr_cycle, crr_session, total_completed_sessions,
                   phase, break_type, break_m, break_s, mainloop_run, devices,
                   histVars>>

\* SIGINT: KeyboardInterrupt in the main thread.  Inside update_overlay_window
\* it is caught at lines 360-362 (destroy, return: App() returns and the
\* process exits); before that it escapes App() to lines 712-714, where `app`
\* is not bound yet and app.destroy() raises NameError.
Interrupt ==
    /\ Running
    /\ IF mainPc = "init"
       THEN /\ ProcessExits(IF appBound THEN "exit0" ELSE "exit1")
            /\ window' = (IF appBound THEN "destroyed" ELSE window)
            /\ UNCHANGED appBound
       ELSE /\ ProcessExits("exit0")
            /\ window' = "destroyed"
            /\ appBound' = TRUE
    /\ UNCHANGED <<config, cfgVars, notify_send, crr_cycle, crr_session, total_completed_sessions,
                   phase, break_type, break_m, break_s, mainloop_run, devices,
                   histVars>>

\* an exception escapes App() (Thread.start() at line 292, or a TclError while
\* the first break is being put on screen, outside any Tk callback) and reaches
\* lines 715-720: the error is logged, then app.settings is read.  `app` is
\* bound only once App() has returned, so that read raises NameError unless
\* appBound; only then is enable_input_devices() reached.
AppRaises ==
    /\ Running
    /\ \/ mainPc = "init"
       \/ /\ mainPc = "get"
          /\ ~mainloop_run
          /\ queue # <<>>
          /\ Head(queue).type = "break"
    /\ IF appBound
       THEN /\ ProcessExits("exit0")
            /\ IF config.block_input
               THEN \E e \in XinputEnv :
                       /\ devices' = enable_input_devices(devices, e)
                       /\ gateLog' = Append(gateLog, GateCall("enable"))
               ELSE UNCHANGED <<devices, gateLog>>
       ELSE /\ ProcessExits("exit1")
            /\ UNCHANGED <<devices, gateLog>>
    /\ UNCHANGED <<config, cfgVars, notify_send, notifyLog, crr_cycle, crr_session, total_completed_sessions,
                   phase, break_type, break_m, break_s, mainloop_run, window,
                   appBound, errors, phaseLog, sent>>

Next ==
    \/ Setup
    \/ PomodoroBegin
    \/ StartWorker
    \/ ThreadStartFails
    \/ \E job \in Jobs : Tick(job)
    \/ Join
    \/ SelectBreak
    \/ DisableInput
    \/ PutBreak
    \/ EnableInput
    \/ SessionCompleted
    \/ CycleCompleted
    \/ StartScheduler
    \/ update_overlay_window
    \/ update_overlay_timer
    \/ on_key_press
    \/ Interrupt
    \/ AppRaises

Spec == Init /\ [][Next]_vars

TypeOK ==
    /\ config \in ValidConfigs
    /\ crr_cycle \in 1..(MaxCycles + 1)
    /\ schedPc \in {"not_started", "setup", "top", "start1", "start2", "join",
                    "select", "disable", "put", "enable", "update", "ended",
                    "dead"}
    /\ phase \in {"none", "pomodoro", "break"}
    /\ mainPc \in {"init", "get", "mainloop", "returned"}
    /\ window \in {"unmapped", "shown", "withdrawn", "destroyed"}
    /\ proc \in {"running", "exit0", "exit1"}
    /\ devices \in [Dev -> {"slave", "floating"}]
    /\ Len(phaseLog) <= MaxPhases

\* ------------------------------------------ the tick run, for any duration
\* timer(progress, job, duration_s) taken alone: two timer threads created
\* with any duration_s >= 1 on tasks with any completed value, started and
\* joined as run_pomodoro does at lines 605-614
TickInit ==
    /\ config = [pomodoro |-> 1, short_break |-> 1, long_break |-> 1,
                 cycles |-> 1, block_input |-> FALSE, notify |-> TRUE]
    /\ crr_cycle = 1
    /\ crr_session = 1
    /\ total_completed_sessions = 0
    /\ schedPc = "start1"
    /\ phase = "pomodoro"
    /\ break_type = "none"
    /\ break_m = 0
    /\ break_s = 0
    /\ completed \in [Jobs -> 0..MaxBase]
    /\ \E duration_s \in 1..MaxDuration :
          /\ total = [cycle_job |-> duration_s, session_job |-> total_time_s]
          /\ worker = [j \in Jobs |-> Thread(j, duration_s, 1, completed)]
    /\ queue = <<>>
    /\ mainPc = "get"
    /\ mainloop_run = FALSE
    /\ window = "unmapped"
    /\ appBound = FALSE
    /\ proc = "running"
    /\ devices = [d \in Dev |-> "slave"]
    /\ errors = 0
    /\ phaseLog = <<"P">>
    /\ gateLog = <<>>
    /\ sent = <<>>
    /\ flags = {}
    /\ args = NoArgs
    /\ parser = NoFile
    /\ notify_send = "present"
    /\ notifyLog = <<>>
    /\ state_file = NoSnapshot

TickNext ==
    \/ StartWorker
    \/ \E job \in Jobs : Tick(job)
    \/ Join

\* the threads' scheduling: the scheduler thread and a started timer thread
\* keep being run by the OS (sleep(1) returns)
TickSpec ==
    /\ TickInit
    /\ [][TickNext]_vars
    /\ WF_vars(StartWorker)
    /\ \A job \in Jobs : WF_vars(Tick(job))

\* ------------------------------------------------- parse_config and its parts
\* load_configuration: the defaults, overridden by what the file gives.  An
\* int entry is read with getint; one that is no integer is skipped.  The
\* names of the file's presets are lower-cased.
load_configuration(file) ==
    LET settings == get_default_settings
        getint(key) == int(CHOOSE raw \in file.ints[key] : TRUE)
    IN IF ~file.exists THEN settings
       ELSE [key \in DOMAIN settings |->
               IF key \in TimerKeys
               THEN (IF file.ints[key] # {} /\ getint(key).ok
                     THEN getint(key).v ELSE settings[key])
               ELSE IF key = "timer"
               THEN (IF file.timer # {} THEN CHOOSE t \in file.timer : TRUE
                     ELSE settings[key])
               ELSE IF key = "presets"
               THEN update(settings.presets,
                           {<<lower(kv[1]), kv[2]>> : kv \in file.presets})
               ELSE settings[key]]

\* lines 471-487: a dest is overridden by its argparse value when its long or
\* its short flag is one of the words of `flags`
was_provided(dest, fl) == LongFlag[dest] \in fl \/ ShortFlag[dest] \in fl

cli_override(cfg, fl, a) ==
    [key \in DOMAIN cfg |->
        IF key \in TimerKeys \cup {"timer"}
        THEN (IF was_provided(key, fl) THEN a[key] ELSE cfg[key])
        ELSE IF key = "overlay"
        THEN [opacity |-> IF was_provided("overlay_opacity", fl)
                          THEN a.overlay_opacity ELSE cfg.overlay.opacity]
        ELSE cfg[key]]

\* lines 489-508: the timer setting.  timer_str is the preset's value, or the
\* setting itself when it holds a ' ', or None (held as "": both are falsy).
\* The result is the config and whether sys.exit(1) was called.
apply_timer(cfg) ==
    LET timer_val == lower(cfg.timer)
        timer_str == get(cfg.presets, timer_val,
                         IF HasSpace(timer_val) THEN timer_val ELSE <<>>)
        words == split(timer_str)
        values == [i \in DOMAIN words |-> int(words[i])]
    IN IF cfg.timer = <<>> \/ timer_str = <<>>
       THEN [config |-> cfg, exit |-> FALSE]
       ELSE IF \E i \in DOMAIN values : ~values[i].ok
       THEN [config |-> cfg, exit |-> FALSE]
       ELSE IF Len(values) = 4
       THEN [config |-> [key \in DOMAIN cfg |->
                            IF key \in TimerKeys
                            THEN values[CHOOSE i \in DOMAIN TimerOrder :
                                            TimerOrder[i] = key].v
                            ELSE cfg[key]],
             exit |-> FALSE]
       ELSE [config |-> cfg, exit |-> TRUE]

\* faulty variant of FinalValidation: >= 0 for > 0
FinalValidation_nonneg(cfg) ==
    /\ \A key \in TimerKeys : cfg[key] >= 0
    /\ 0 <= cfg.overlay.opacity /\ cfg.overlay.opacity <= 10

\* lines 512-521: the config passes (no sys.exit(1))
FinalValidation(cfg) ==
    /\ \A key \in TimerKeys : cfg[key] > 0
    /\ 0 <= cfg.overlay.opacity /\ cfg.overlay.opacity <= 10

\* parse_config as a function of the command line and the file
resolve(fl, a, file) ==
    LET t == apply_timer(cli_override(load_configuration(file), fl, a))
    IN [config |-> t.config, exit |-> t.exit \/ ~FinalValidation(t.config)]

\* lines 287-288 of App.__init__: parse_args and parse_config.  sys.exit(1)
\* raises SystemExit, which no handler of the module catches: the process exits
\* with status 1, before the scheduler thread is created.
parse_config ==
    /\ Running
    /\ mainPc = "parse"
    /\ config' = resolve(flags, args, parser).config
    /\ IF resolve(flags, args, parser).exit
       THEN proc' = "exit1" /\ mainPc' = "returned"
       ELSE proc' = proc /\ mainPc' = "init"
    /\ UNCHANGED <<cfgVars, notify_send, state_file, schedVars, completed, total,
                   worker, queue, mainloop_run, window, appBound, devices,
                   histVars>>

\* ------------------------------------------- the overlay left to itself
\* the scheduler and the overlay with no key press, no signal and no failure.
\* The main thread keeps running: queue.get() returns once an item is there,
\* and the Tk mainloop runs the countdown callback until remaining_s <= 0.
OverlayInit ==
    /\ Init
    /\ config = [pomodoro |-> 1, short_break |-> 1, long_break |-> 1,
                 cycles |-> 2, block_input |-> FALSE, notify |-> TRUE]

OverlayNext ==
    \/ Setup
    \/ PomodoroBegin
    \/ StartWorker
    \/ \E job \in Jobs : Tick(job)
    \/ Join
    \/ SelectBreak
    \/ DisableInput
    \/ PutBreak
    \/ EnableInput
    \/ SessionCompleted
    \/ CycleCompleted
    \/ StartScheduler
    \/ update_overlay_window
    \/ update_overlay_timer

OverlaySpec ==
    /\ OverlayInit
    /\ [][OverlayNext]_vars
    /\ WF_vars(update_overlay_window)
    /\ WF_vars(update_overlay_timer)

\* ------------------------- the scheduler left to itself, in any environment
\* no signal, no key press and no thread that fails to start: run_pomodoro and
\* its timer threads run, with or without block_input and notify, notify-send
\* installed or not, and every xinput call free to fail.  The main thread
\* starts the scheduler and is then left in queue.get(): the queue is
\* unbounded and run_pomodoro reads nothing the overlay writes, so the Break
\* events stay where run_pomodoro put them
SchedulerConfigs ==
    [pomodoro : {1}, short_break : {1}, long_break : 1..MaxBreak,
     cycles : 1..MaxCycles, block_input : BOOLEAN, notify : BOOLEAN]

SchedulerInit ==
    /\ config \in SchedulerConfigs
    /\ crr_cycle = 1
    /\ crr_session = 1
    /\ total_completed_sessions = 0
    /\ schedPc = "not_started"
    /\ phase = "none"
    /\ break_type = "none"
    /\ break_m = 0
    /\ break_s = 0
    /\ completed = [j \in Jobs |-> 0]
    /\ total = [j \in Jobs |-> 0]
    /\ worker = [j \in Jobs |-> IdleWorker]
    /\ queue = <<>>
    /\ mainPc = "init"
    /\ mainloop_run = FALSE
    /\ window = "unmapped"
    /\ appBound = FALSE
    /\ proc = "running"
    /\ devices = [d \in Dev |-> "slave"]
    /\ errors = 0
    /\ phaseLog = <<>>
    /\ gateLog = <<>>
    /\ sent = <<>>
    /\ flags = {}
    /\ args = NoArgs
    /\ parser = NoFile
    /\ notify_send \in {"present", "missing"}
    /\ notifyLog = <<>>
    /\ state_file = NoSnapshot

\* a step of the scheduler thread
run_pomodoro ==
    \/ Setup \/ PomodoroBegin \/ StartWorker \/ Join \/ SelectBreak
    \/ DisableInput \/ PutBreak \/ EnableInput
    \/ SessionCompleted \/ CycleCompleted

SchedulerNext ==
    \/ StartScheduler
    \/ Setup
    \/ PomodoroBegin
    \/ StartWorker
    \/ \E job \in Jobs : Tick(job)
    \/ Join
    \/ SelectBreak
    \/ DisableInput
    \/ PutBreak
    \/ EnableInput
    \/ SessionCompleted
    \/ CycleCompleted

\* the threads are scheduled and sleep(1) returns: the main thread starts the
\* scheduler thread, and the scheduler thread and each timer thread take their
\* next step in the end
SchedulerFairness ==
    /\ WF_vars(StartScheduler)
    /\ WF_vars(run_pomodoro)
    /\ \A job \in Jobs : WF_vars(Tick(job))

SchedulerSpec == SchedulerInit /\ [][SchedulerNext]_vars /\ SchedulerFairness

\* ------------------------------------ py-pomlock.py, the other scheduler
\* run_pomodoro, lines 408-432.  One pass of its `while True:` after the work
\* period: cycle_count += 1, then the choice of the break, the long one
\* resetting cycle_count to 0
py_break(cycle_count, cycles_before_long) ==
    IF cycle_count + 1 >= cycles_before_long
    THEN [current_break_type |-> "Long break", cycle_count |-> 0]
    ELSE [current_break_type |-> "Short break", cycle_count |-> cycle_count + 1]

\* cycle_count after n passes of the loop, from `cycle_count = 0` (line 408)
RECURSIVE py_cycle_count(_, _)
py_cycle_count(n, cycles_before_long) ==
    IF n = 0 THEN 0
    ELSE py_break(py_cycle_count(n - 1, cycles_before_long),
                  cycles_before_long).cycle_count

\* the break of the n-th pass
py_break_type(n, cycles_before_long) ==
    py_break(py_cycle_count(n - 1, cycles_before_long),
             cycles_before_long).current_break_type

\* ------------------------------------------- the program, xinput working
\* Spec with every xinput call succeeding
XinputOkNext ==
    \/ Setup
    \/ PomodoroBegin
    \/ StartWorker
    \/ ThreadStartFails
    \/ \E job \in Jobs : Tick(job)
    \/ Join
    \/ SelectBreak
    \/ DisableInputIn({AllOk})
    \/ PutBreak
    \/ EnableInputIn({AllOk})
    \/ SessionCompleted
    \/ CycleCompleted
    \/ StartScheduler
    \/ update_overlay_window
    \/ update_overlay_timer
    \/ on_key_press
    \/ Interrupt
    \/ AppRaises

XinputOkSpec == Init /\ [][XinputOkNext]_vars

\* ------------------------------------- DeviceGate, for any device state
\* disable_input_devices and enable_input_devices called in any order, up to
\* MaxCalls times, on devices found in any state (a device may be floating
\* before the program ever runs), every xinput call free to fail
GateInit ==
    /\ config = [pomodoro |-> 1, short_break |-> 1, long_break |-> 2,
                 cycles |-> 1, block_input |-> TRUE, notify |-> TRUE]
    /\ crr_cycle = 1
    /\ crr_session = 1
    /\ total_completed_sessions = 0
    /\ schedPc = "not_started"
    /\ phase = "none"
    /\ break_type = "none"
    /\ break_m = 0
    /\ break_s = 0
    /\ completed = [j \in Jobs |-> 0]
    /\ total = [j \in Jobs |-> 0]
    /\ worker = [j \in Jobs |-> IdleWorker]
    /\ queue = <<>>
    /\ mainPc = "init"
    /\ mainloop_run = FALSE
    /\ window = "unmapped"
    /\ appBound = FALSE
    /\ proc = "running"
    /\ devices \in [Dev -> {"slave", "floating"}]
    /\ errors = 0
    /\ phaseLog = <<>>
    /\ gateLog = <<>>
    /\ sent = <<>>
    /\ flags = {}
    /\ args = NoArgs
    /\ parser = NoFile
    /\ notify_send = "present"
    /\ notifyLog = <<>>
    /\ state_file = NoSnapshot

\* lines 240-243, called on its own
CallDisable ==
    /\ Len(gateLog) < MaxCalls
    /\ \E e \in XinputEnv : devices' = disable_input_devices(devices, e)
    /\ gateLog' = Append(gateLog, GateCall("disable"))
    /\ UNCHANGED <<config, cfgVars, notify_send, notifyLog, state_file, schedVars,
                   completed, total, worker, queue, mainVars, proc, errors,
                   phaseLog, sent>>

\* lines 246-248, called on its own
CallEnable ==
    /\ Len(gateLog) < MaxCalls
    /\ \E e \in XinputEnv : devices' = enable_input_devices(devices, e)
    /\ gateLog' = Append(gateLog, GateCall("enable"))
    /\ UNCHANGED <<config, cfgVars, notify_send, notifyLog, state_file, schedVars,
                   completed, total, worker, queue, mainVars, proc, errors,
                   phaseLog, sent>>

GateNext ==
    \/ CallDisable
    \/ CallEnable

GateSpec == GateInit /\ [][GateNext]_vars

\* --------------------------------------------- the bridge, for any queue
\* update_overlay_window taken alone, on whatever events a producer has put on
\* self.queue (run_pomodoro itself has returned)
ExitEvent == [type |-> "exit", msg |-> 0]
BridgeEvents == {BreakEvent(TicksPerMinute), BreakEvent(2 * TicksPerMinute), ExitEvent}

RECURSIVE SeqsUpTo(_, _)
SeqsUpTo(S, n) ==
    IF n = 0 THEN {<<>>}
    ELSE SeqsUpTo(S, n - 1) \cup
         {Append(q, e) : q \in {r \in SeqsUpTo(S, n - 1) : Len(r) = n - 1}, e \in S}

BridgeInit ==
    /\ config = [pomodoro |-> 1, short_break |-> 1, long_break |-> 2,
                 cycles |-> 1, block_input |-> FALSE, notify |-> TRUE]
    /\ crr_cycle = 1
    /\ crr_session = 1
    /\ total_completed_sessions = 0
    /\ schedPc = "ended"
    /\ phase = "none"
    /\ break_type = "none"
    /\ break_m = 0
    /\ break_s = 0
    /\ completed = [j \in Jobs |-> 0]
    /\ total = [j \in Jobs |-> 0]
    /\ worker = [j \in Jobs |-> IdleWorker]
    /\ queue \in SeqsUpTo(BridgeEvents, MaxQueue)
    /\ mainPc = "get"
    /\ mainloop_run = FALSE
    /\ window = "unmapped"
    /\ appBound = FALSE
    /\ proc = "running"
    /\ devices = [d \in Dev |-> "slave"]
    /\ errors = 1
    /\ phaseLog = <<>>
    /\ gateLog = <<>>
    /\ sent = [i \in DOMAIN queue |-> [ev |-> queue[i], phase |-> 0]]
    /\ flags = {}
    /\ args = NoArgs
    /\ parser = NoFile
    /\ notify_send = "present"
    /\ notifyLog = <<>>
    /\ state_file = NoSnapshot

BridgeNext ==
    \/ update_overlay_window
    \/ update_overlay_timer

BridgeSpec == BridgeInit /\ [][BridgeNext]_vars

\* ------------------------------------- the configuration run, for any input
\* the command lines: any of -p, --short-break, -l, --cycles with the value
\* cliVal, -t with a timer string, --overlay-opacity with a value
Spelling ==
    [pomodoro |-> "-p", short_break |-> "--short-break", long_break |-> "-l",
     cycles |-> "--cycles", timer |-> "-t", overlay_opacity |-> "--overlay-opacity"]
CliTimers ==
    {<<>>, <<"U", "l", "t", "r", "a", "d", "i", "a", "n">>, <<"f", "o", "o">>, <<"2", " ", "1", " ", "2", " ", "1">>, <<"1", " ", "2", " ", "3">>, <<"1", " ", "x", " ", "2", " ", "1">>, <<"0", " ", "1", " ", "1", " ", "1">>, <<"2", "	", "1", "	", "2", "	", "1">>}
CliOpacities == {10, 11}
\* the config files: any of the four int entries with the text fileRaw, and
\* either nothing else, or a timer naming a preset of the file, or a preset of
\* the file that replaces `standard`
FileRaws == {<<"7">>, <<"x">>}
FileExtras ==
    {[timer |-> {}, presets |-> {}],
     [timer |-> {<<"M", "i", "n", "e">>}, presets |-> {<<<<"m", "i", "n", "e">>, <<"7", " ", "1", " ", "2", " ", "1">>>>}],
     [timer |-> {}, presets |-> {<<<<"s", "t", "a", "n", "d", "a", "r", "d">>, <<"2", "5", " ", "5">>>>}]}

ConfigInit ==
    /\ \E given \in SUBSET DOMAIN Spelling, cliVal \in 0..MaxArg,
          timer \in CliTimers, opacity \in CliOpacities :
          /\ flags = {Spelling[dest] : dest \in given}
          /\ args = [dest \in DOMAIN NoArgs |->
                        IF dest \notin given THEN NoArgs[dest]
                        ELSE IF dest = "timer" THEN timer
                        ELSE IF dest = "overlay_opacity" THEN opacity
                        ELSE cliVal]
    /\ \/ parser = NoFile
       \/ \E inFile \in SUBSET TimerKeys, fileRaw \in FileRaws, extra \in FileExtras :
             parser = [exists |-> TRUE, timer |-> extra.timer,
                       ints |-> [k \in TimerKeys |->
                                    IF k \in inFile THEN {fileRaw} ELSE {}],
                       presets |-> extra.presets]
    /\ config = get_default_settings
    /\ crr_cycle = 1
    /\ crr_session = 1
    /\ total_completed_sessions = 0
    /\ schedPc = "not_started"
    /\ phase = "none"
    /\ break_type = "none"
    /\ break_m = 0
    /\ break_s = 0
    /\ completed = [j \in Jobs |-> 0]
    /\ total = [j \in Jobs |-> 0]
    /\ worker = [j \in Jobs |-> IdleWorker]
    /\ queue = <<>>
    /\ mainPc = "parse"
    /\ mainloop_run = FALSE
    /\ window = "unmapped"
    /\ appBound = FALSE
    /\ proc = "running"
    /\ devices = [d \in Dev |-> "slave"]
    /\ errors = 0
    /\ phaseLog = <<>>
    /\ gateLog = <<>>
    /\ sent = <<>>
    /\ notify_send = "present"
    /\ notifyLog = <<>>
    /\ state_file = NoSnapshot

ConfigNext ==
    \/ parse_config
    \/ StartScheduler

ConfigSpec == ConfigInit /\ [][ConfigNext]_vars

\* ------------------------------------------------------------- properties
Stopped == proc # "running"
LastPhase == IF phaseLog = <<>> THEN "none" ELSE phaseLog[Len(phaseLog)]
BreakPhases == {i \in 1..Len(phaseLog) : phaseLog[i] # "P"}
GateCallsIn(i, name) ==
    Cardinality({k \in 1..Len(gateLog) : gateLog[k].phase = i /\ gateLog[k].call = name})
\* phase i is over: a later phase has begun, or the scheduler is past the
\* break's tick and enable, or has returned, or the process has stopped
PhaseOver(i) ==
    \/ i < Len(phaseLog)
    \/ schedPc \in {"update", "top", "ended"}
    \/ Stopped
ExitsSent == {k \in 1..Len(sent) : sent[k].ev.type = "exit"}
BreaksSentIn(i) == {k \in 1..Len(sent) : sent[k].ev.type = "break" /\ sent[k].phase = i}

\* C1: whenever the process has stopped and block_input is set, input is not
\* left disabled: the last DeviceGate call made, if any, is an enable
C1_InputRestoredOnStop ==
    (Stopped /\ config.block_input)
        => (gateLog = <<>> \/ gateLog[Len(gateLog)].call = "enable")

\* C2: with block_input set, every break phase that is over, however it ended
\* (completion, exception in the scheduler, stop of the process), has made as
\* many enable calls as disable calls, and at most one of each
C2_GatePairsPerBreak ==
    config.block_input =>
        \A i \in BreakPhases :
            PhaseOver(i) =>
                /\ GateCallsIn(i, "disable") = GateCallsIn(i, "enable")
                /\ GateCallsIn(i, "enable") <= 1

\* C3: during a break phase, the break is the long one iff crr_cycle >= cycles,
\* and its duration is that of long_break in that case, of short_break otherwise
C3_BreakSelection ==
    (Running /\ phase = "break" /\ schedPc # "top") =>
        /\ (LastPhase = "L") <=> (crr_cycle >= config.cycles)
        /\ (break_type = "Long break") <=> (crr_cycle >= config.cycles)
        /\ break_m = (IF crr_cycle >= config.cycles
                      THEN config.long_break ELSE config.short_break)
        /\ break_s = break_m * TicksPerMinute
        /\ total["cycle_job"] = break_s

C3_Witness ==
    /\ phase = "break" /\ schedPc = "join"
    /\ break_type = "Long break"
    /\ config.cycles = 2 /\ crr_cycle = 2
    /\ config.long_break = 2 /\ config.short_break = 1
    /\ break_m = 2

\* C4: the step that follows the completion of a long break (and precedes the
\* next pomodoro) sets the cycle counter to 1 and adds exactly 1 to the
\* session counter and to total_completed_sessions
C4_LongBreakUpdate ==
    [][(schedPc = "update" /\ schedPc' \notin {"update", "dead"} /\ break_type = "Long break")
        => /\ schedPc' = "top"
           /\ crr_cycle' = 1
           /\ crr_session' = crr_session + 1
           /\ total_completed_sessions' = total_completed_sessions + 1]_vars

C4_Witness ==
    /\ schedPc = "top" /\ LastPhase = "L"
    /\ config.cycles = 2
    /\ crr_cycle = 1 /\ crr_session = 2 /\ total_completed_sessions = 1

\* C5: the step that follows the completion of a short break adds exactly 1 to
\* the cycle counter and leaves both session counters unchanged
C5_ShortBreakUpdate ==
    [][(schedPc = "update" /\ schedPc' \notin {"update", "dead"} /\ break_type = "Short break")
        => /\ schedPc' = "top"
           /\ crr_cycle' = crr_cycle + 1
           /\ crr_session' = crr_session
           /\ total_completed_sessions' = total_completed_sessions]_vars

C5_Witness ==
    /\ schedPc = "top" /\ LastPhase = "S"
    /\ crr_cycle = 2 /\ crr_session = 1 /\ total_completed_sessions = 0

\* C6: the first phase is the pomodoro of cycle 1 of session 1; phases
\* alternate pomodoro, break; and the k-th break is long iff cycles divides k
C6_PhaseSequence ==
    /\ Len(phaseLog) = 1 =>
           (crr_cycle = 1 /\ crr_session = 1 /\ phase = "pomodoro")
    /\ \A i \in 1..Len(phaseLog) :
           IF i % 2 = 1 THEN phaseLog[i] = "P"
           ELSE phaseLog[i] = (IF (i \div 2) % config.cycles = 0 THEN "L" ELSE "S")

C6_Witness ==
    /\ config.cycles = 2
    /\ phaseLog = <<"P", "S", "P", "L", "P", "S">>

\* C7: when the long break of a session has completed, the session-level
\* counter equals the session total computed by the budget formula
C7_SessionBudget ==
    (schedPc = "update" /\ break_type = "Long break") =>
        /\ total["session_job"] = total_time_s
        /\ completed["session_job"] = total["session_job"]

\* C8: for every duration_s >= 1, a timer thread that ends leaves its counter
\* at the value the counter had when the thread was created plus duration_s,
\* at every moment of the run the counter is that value plus the iterations
\* made, and every timer thread created ends
C8_TickExact ==
    /\ [][\A job \in Jobs :
            (worker[job].st = "running" /\ worker'[job].st = "done")
                => completed'[job] = worker[job].base + worker[job].duration_s]_vars
    /\ [](\A job \in Jobs :
            worker[job].st \in {"running", "done"}
                => completed[job] = worker[job].base + worker[job].duration_s
                                        - worker[job].left)
    /\ \A job \in Jobs :
          (worker[job].st \in {"created", "running"}) ~> (worker[job].st = "done")

C8_Witness ==
    /\ worker["session_job"].st = "done"
    /\ worker["session_job"].duration_s = 3
    /\ worker["session_job"].base = 2
    /\ completed["session_job"] = 5
    /\ worker["cycle_job"].st = "running"
    /\ completed["cycle_job"] = 1

\* C9: a Break event is only ever put for a break phase, at most one per break
\* phase, and exactly one has been put by the time a tick thread of that break
\* is started (and for every break phase a later phase has followed)
C9_OneBreakEventPerBreak ==
    /\ \A k \in 1..Len(sent) :
          sent[k].ev.type = "break" => sent[k].phase \in BreakPhases
    /\ \A i \in 1..Len(phaseLog) :
          /\ phaseLog[i] = "P" => BreaksSentIn(i) = {}
          /\ Cardinality(BreaksSentIn(i)) <= 1
          /\ (phaseLog[i] # "P" /\ i < Len(phaseLog)) => Cardinality(BreaksSentIn(i)) = 1
    /\ \A job \in Jobs :
          (worker[job].st \in {"running", "done"} /\ worker[job].phase \in BreakPhases)
              => Cardinality(BreaksSentIn(worker[job].phase)) = 1

C9_Witness ==
    /\ phase = "break" /\ schedPc = "join"
    /\ worker["cycle_job"].st = "running"
    /\ Len(phaseLog) = 4
    /\ Len(sent) = 2
    /\ sent[2].phase = 4

\* C10: once the process has stopped or the scheduler has returned on an
\* exception, exactly one Exit event has been put on the queue; none is put
\* while the scheduler keeps running
C10_ExitPushedOnShutdown ==
    IF Stopped \/ schedPc = "ended"
    THEN Cardinality(ExitsSent) = 1
    ELSE ExitsSent = {}

\* C11: an escape or q key press delivered while the overlay is shown destroys
\* the window and leaves the scheduler as it is: the process keeps running and
\* the scheduler thread, its timer threads and the progress counters are
\* untouched by the step
C11_KeyPressKeepsScheduler ==
    [][(on_key_press /\ window' = "destroyed")
        => /\ proc' = "running"
           /\ schedPc' = schedPc
           /\ worker' = worker
           /\ completed' = completed]_vars

\* C12: once run_pomodoro has logged an exception that escaped its loop, an
\* Exit event has been put, the last DeviceGate call under block_input (if
\* any was made) is an enable, and the process, if stopped, has status 1
C12_FatalErrorShutsDown ==
    errors > 0 =>
        /\ ExitsSent # {}
        /\ config.block_input =>
               (gateLog = <<>> \/ gateLog[Len(gateLog)].call = "enable")
        /\ Stopped => proc = "exit1"

\* the string a timer setting stands for: the value of the preset it names,
\* or the setting itself
TimerString(cfg) == get(cfg.presets, lower(cfg.timer), cfg.timer)
\* s is exactly four integers separated by whitespace
FourIntegers(s) == Len(split(s)) = 4 /\ \A i \in DOMAIN split(s) : int(split(s)[i]).ok
Rejected == proc = "exit1" /\ schedPc = "not_started"

\* C13: once the config is resolved, if one of pomodoro, short_break,
\* long_break, cycles is not strictly positive or the overlay opacity is not in
\* [0.0, 1.0], the process has exited with status 1 and the scheduler thread
\* was never started; and the scheduler thread only ever runs with the four
\* values strictly positive
C13_InvalidConfigRejected ==
    /\ (/\ mainPc # "parse"
        /\ \/ \E key \in TimerKeys : config[key] <= 0
           \/ config.overlay.opacity < 0
           \/ config.overlay.opacity > 10)
           => Rejected
    /\ schedPc # "not_started" => \A key \in TimerKeys : config[key] > 0

C13_Witness ==
    /\ Rejected
    /\ mainPc = "returned"
    /\ "--cycles" \in flags /\ args.cycles = 0
    /\ config.timer = <<>>
    /\ config.cycles = 0 /\ config.pomodoro > 0

\* C14: once the config is resolved, if the timer setting is given and stands
\* for a string that is not exactly four integers, the process has exited with
\* status 1 and the scheduler thread was never started
C14_BadTimerRejected ==
    (mainPc # "parse" /\ config.timer # <<>> /\ ~FourIntegers(TimerString(config)))
        => Rejected

\* C15: once the config is resolved, if the timer setting names a preset or is
\* itself a string of four whitespace-separated integers, then pomodoro,
\* short_break, long_break and cycles are the four integers, in that order
C15_TimerOrder ==
    (mainPc # "parse" /\ FourIntegers(TimerString(config)))
        => \A i \in DOMAIN TimerOrder :
              config[TimerOrder[i]] = int(split(TimerString(config))[i]).v

\* C16: once the config is resolved, each of pomodoro, short_break, long_break
\* and cycles is the command-line value if the option was given, else the
\* value of the config file if it has one, else the default
C16_Precedence ==
    mainPc # "parse" =>
        \A key \in TimerKeys :
            config[key] =
                IF Spelling[key] \in flags THEN args[key]
                ELSE IF /\ parser.exists
                        /\ parser.ints[key] # {}
                        /\ int(CHOOSE raw \in parser.ints[key] : TRUE).ok
                THEN int(CHOOSE raw \in parser.ints[key] : TRUE).v
                ELSE get_default_settings[key]

\* C17: while the timer threads of a phase exist, the cycle-level counter has
\* advanced since the phase began by as much as the session-level counter has
C17_CountersInStep ==
    (Running /\ schedPc \in {"start1", "start2", "join"}) =>
        completed["cycle_job"] - worker["cycle_job"].base
            = completed["session_job"] - worker["session_job"].base

\* the duration, in ticks, of the phase being run
PhaseDuration == IF phase = "pomodoro" THEN pomo_s ELSE break_s

\* C18: whenever the scheduler is past the join of a phase (at the break
\* selection after a pomodoro, at enable_input_devices or at the cycle/session
\* update after a break), both timer threads of that phase have ended and each
\* counter has advanced by exactly the phase's duration; and a new phase only
\* begins with no timer thread unfinished
C18_JoinBarrier ==
    /\ (Running /\ schedPc \in {"select", "enable", "update"}) =>
          \A j \in Jobs :
              /\ worker[j].st = "done"
              /\ worker[j].phase = Len(phaseLog)
              /\ worker[j].duration_s = PhaseDuration
              /\ completed[j] = worker[j].base + PhaseDuration
    /\ (Running /\ schedPc \in {"top", "disable", "put"}) =>
          \A j \in Jobs : worker[j].st \in {"idle", "done"}

C18_Witness ==
    /\ Running /\ schedPc = "enable"
    /\ phaseLog = <<"P", "S">>
    /\ config.pomodoro = 1 /\ config.short_break = 2
    /\ completed["cycle_job"] = 10
    /\ completed["session_job"] = 15
    /\ \A j \in Jobs : worker[j].st = "done"

\* a step of the scheduler thread or of one of its timer threads
SchedulerStep ==
    \/ Setup \/ PomodoroBegin \/ StartWorker \/ (\E job \in Jobs : Tick(job))
    \/ Join \/ SelectBreak \/ DisableInput \/ PutBreak \/ EnableInput
    \/ SessionCompleted \/ CycleCompleted

\* C19: queue.put of a Break event can always be made when the scheduler
\* reaches it, whatever is still on the queue; and in every state where the
\* scheduler is alive (and the phase bound is not what stops it) the scheduler
\* thread or one of its timer threads can take a step, whatever the main thread
\* has or has not done
C19_SchedulerNeverBlocks ==
    /\ SchedAt("put") => ENABLED PutBreak
    /\ (/\ Running
        /\ schedPc \notin {"not_started", "ended"}
        /\ ~(schedPc \in {"top", "select"} /\ Len(phaseLog) = MaxPhases))
           => ENABLED SchedulerStep

C19_Witness ==
    /\ SchedAt("start1")
    /\ phase = "break"
    /\ Len(queue) = 2
    /\ mainPc = "get" /\ ~mainloop_run

\* the Break events the main thread has taken from the queue
Received == Len(sent) - Len(queue)

\* C20: the step that ends a countdown withdraws the window, does not destroy
\* it and leaves the main thread waiting on the queue; a Break event taken
\* from the queue after that shows the window again; and every Break event put
\* on the queue is eventually taken
C20_WithdrawAndReshow ==
    /\ [][(mainPc = "mainloop" /\ mainPc' # "mainloop")
            => (window' = "withdrawn" /\ mainPc' = "get" /\ Running')]_vars
    /\ [][(window = "withdrawn" /\ Received' = Received + 1)
            => (window' = "shown" /\ mainPc' = "mainloop")]_vars
    /\ [](window # "destroyed")
    /\ \A n \in 1..MaxPhases : (Len(sent) >= n) ~> (Received >= n)

C20_Witness ==
    /\ window = "shown" /\ mainPc = "mainloop" /\ mainloop_run
    /\ Len(sent) = 2 /\ Received = 2

\* C21: the step that takes an Exit event from the queue destroys the window
\* and ends the consumer: the main thread has returned, and from then on no
\* step of the bridge (taking an event, ending a countdown) is possible
C21_ExitEndsBridge ==
    /\ [][(mainPc = "get" /\ queue # <<>> /\ Head(queue).type = "exit")
            => (window' = "destroyed" /\ mainPc' = "returned")]_vars
    /\ [](window = "destroyed" =>
            /\ mainPc = "returned"
            /\ ~ ENABLED update_overlay_window
            /\ ~ ENABLED update_overlay_timer)

C21_Witness ==
    /\ window = "destroyed" /\ mainPc = "returned"
    /\ mainloop_run
    /\ Len(sent) = 3
    /\ sent[1].ev.type = "break" /\ sent[2].ev.type = "exit" /\ sent[3].ev.type = "break"

\* C22: without block_input no DeviceGate call is ever made, whatever way the
\* process stops.  With block_input, DeviceGate is called in break phases only,
\* once each way at most and disable first: no tick thread of a break exists
\* before that break's disable call, no enable call is made while one of them
\* is unfinished, and the enable call has been made by the time the counters
\* are updated or a later phase begins
TickThreadsOf(i) == {j \in Jobs : worker[j].st # "idle" /\ worker[j].phase = i}

C22_GateAroundBreak ==
    IF ~config.block_input
    THEN gateLog = <<>>
    ELSE /\ \A k \in 1..Len(gateLog) : gateLog[k].phase \in BreakPhases
         /\ \A k \in 1..Len(gateLog) :
               gateLog[k].call = "enable" =>
                  /\ k > 1
                  /\ gateLog[k - 1] = [call |-> "disable", phase |-> gateLog[k].phase]
         /\ \A i \in BreakPhases :
               /\ GateCallsIn(i, "disable") <= 1
               /\ GateCallsIn(i, "enable") <= GateCallsIn(i, "disable")
               /\ TickThreadsOf(i) # {} => GateCallsIn(i, "disable") = 1
               /\ (\E j \in TickThreadsOf(i) : worker[j].st # "done")
                     => GateCallsIn(i, "enable") = 0
               /\ (i < Len(phaseLog) \/ SchedAt("update") \/ SchedAt("top"))
                     => GateCallsIn(i, "enable") = 1

C22_Witness ==
    /\ config.block_input
    /\ SchedAt("top")
    /\ Cardinality(BreakPhases) = 2
    /\ \A i \in BreakPhases : GateCallsIn(i, "disable") = 1 /\ GateCallsIn(i, "enable") = 1

\* a side effect of phase n has failed: its notify-send could not be spawned,
\* or the xinput calls of its disable_input_devices left a device attached
NotifyFailedIn(n) ==
    \E k \in 1..Len(notifyLog) : notifyLog[k].phase = n /\ notifyLog[k].failed
DisableFailedIn(n) ==
    /\ GateCallsIn(n, "disable") = 1
    /\ GateCallsIn(n, "enable") = 0
    /\ \E d \in Dev : devices[d] = "slave"
SideEffectFailedIn(n) == NotifyFailedIn(n) \/ DisableFailedIn(n)

\* C23: with the scheduler left to itself, whatever notify-send and xinput do,
\* run_pomodoro never ends on an error, every timer thread it creates is given
\* the whole duration of its phase, and a phase in which a side effect has
\* failed is followed by the next phase
C23_SideEffectFailureTolerated ==
    /\ [](errors = 0 /\ schedPc # "ended")
    /\ [](\A j \in Jobs : worker[j].st \in {"created", "running"} =>
             /\ worker[j].phase = Len(phaseLog)
             /\ worker[j].duration_s = PhaseDuration)
    /\ \A n \in 1..(MaxPhases - 1) :
          (Len(phaseLog) = n /\ SideEffectFailedIn(n))
              ~> (/\ Len(phaseLog) = n + 1
                  /\ \A j \in Jobs : worker[j].st = "done" /\ worker[j].left = 0)

C23_Witness ==
    /\ Len(phaseLog) = 3
    /\ NotifyFailedIn(1)
    /\ NotifyFailedIn(2)
    /\ GateCallsIn(2, "disable") = 1
    /\ GateCallsIn(2, "enable") = 1
    /\ \E d \in Dev : devices[d] = "floating"
    /\ completed["session_job"] = pomo_s + break_s

\* the setting whose message the notification of a phase of kind k is to carry
MessageFor(k) ==
    CASE k = "P" -> "pomo_notify_msg"
      [] k = "S" -> "break_notify_msg"
      [] k = "L" -> "long_break_notify_msg"

\* C24: every notification carries the message of the kind of phase it was
\* fired in: pomo_notify_msg for a pomodoro, break_notify_msg for a short break,
\* long_break_notify_msg for a long break
C24_NotifyKeyedToPhase ==
    \A k \in 1..Len(notifyLog) :
        notifyLog[k].msg = MessageFor(phaseLog[notifyLog[k].phase])

\* the configured minutes of the break that phase i is
BreakMinutes(i) == IF phaseLog[i] = "L" THEN config.long_break ELSE config.short_break

\* C25: the duration carried by every Break event is 60 times the configured
\* minutes of the break it was put for (short_break for a short break,
\* long_break for a long break)
C25_BreakEventSeconds ==
    \A k \in 1..Len(sent) :
        sent[k].ev.type = "break"
            => sent[k].ev.msg = SecondsPerMinute * BreakMinutes(sent[k].phase)

\* the snapshot's action for a phase of kind k
ActionFor(k) ==
    CASE k = "P" -> "pomodoro"
      [] k = "S" -> "short_break"
      [] k = "L" -> "long_break"
MinutesFor(k) ==
    CASE k = "P" -> config.pomodoro
      [] k = "S" -> config.short_break
      [] k = "L" -> config.long_break

C27_TickingCancellable ==
    [][(Running /\ ~Running' /\ \E j \in Jobs : worker[j].st = "running")
          => /\ \A j \in Jobs : worker'[j].st # "running"
             /\ completed' = completed
             /\ schedPc' # "dead"]_vars

\* C28: in every state the cycle counter is at least 1 and at most the
\* configured number of cycles
C28_CycleInRange == 1 <= crr_cycle /\ crr_cycle <= config.cycles

C28_Witness ==
    /\ config.cycles = 2
    /\ crr_cycle = 1
    /\ total_completed_sessions = 1
    /\ phaseLog = <<"P", "S", "P", "L", "P">>

\* C29: no step lowers crr_session or total_completed_sessions, and a step
\* that changes either of them is the counter update that follows a completed
\* long break: the latest phase is a long break whose two timer threads have
\* ended
C29_SessionCountersMonotone ==
    [][/\ crr_session' >= crr_session
       /\ total_completed_sessions' >= total_completed_sessions
       /\ (crr_session' # crr_session \/ total_completed_sessions' # total_completed_sessions)
             => /\ schedPc = "update"
                /\ LastPhase = "L"
                /\ \A j \in Jobs : worker[j].st = "done" /\ worker[j].phase = Len(phaseLog)]_vars

C29_Witness ==
    /\ config.cycles = 1
    /\ phaseLog = <<"P", "L", "P", "L", "P">>
    /\ crr_session = 3
    /\ total_completed_sessions = 2

\* session n has begun, and its phases fit in MaxPhases phases
SessionBegun(n) ==
    /\ crr_session = n
    /\ phaseLog # <<>>
    /\ 2 * config.cycles * n <= MaxPhases
\* session n is completed: its long break has ended and has been counted
SessionDone(n) == total_completed_sessions = n /\ LastPhase = "L"

\* C30: with the scheduler left to itself, the first phase begins, every phase
\* begun is followed by another one, and every session begun is completed: its
\* long break ends and total_completed_sessions reaches the session's number.
\* (Stated for the phases and sessions that fit in MaxPhases phases.)
C30_PhasesRecur ==
    /\ \A n \in 0..(MaxPhases - 1) :
          (Len(phaseLog) = n) ~> (Len(phaseLog) = n + 1)
    /\ \A n \in 1..(MaxPhases \div 2) :
          SessionBegun(n) ~> SessionDone(n)

C30_Witness ==
    /\ config.cycles = 2
    /\ Len(phaseLog) = 5
    /\ schedPc = "join"
    /\ crr_session = 2
    /\ total_completed_sessions = 1
    /\ errors = 0

AllEnabled(devs) == \A d \in Dev : devs[d] = "slave"
AllDisabled(devs) == \A d \in Dev : devs[d] = "floating"

SchedulerUntouched ==
    /\ UNCHANGED <<crr_cycle, crr_session, total_completed_sessions, phase,
                   break_type, break_m, break_s, phaseLog, gateLog, notifyLog>>
    /\ schedPc' = schedPc \/ (schedPc = "not_started" /\ mainPc = "init")

\* C32: a step that changes the window or enters the mainloop is a step of
\* the main thread: it leaves the scheduler thread and the timer threads where
\* they were (or ends the process, and them with it); a step of the scheduler
\* thread or of a timer thread leaves the window, the mainloop and the main
\* thread's position alone, the queue being all it writes that the main thread
\* reads; and the mainloop, once entered, is not entered again
C32_OneUiThread ==
    [][/\ (window' # window \/ mainloop_run' # mainloop_run)
             => /\ mainPc \in {"init", "get", "mainloop"}
                /\ (SchedulerUntouched /\ worker' = worker /\ completed' = completed)
                      \/ ~Running'
       /\ (Running' /\ (schedPc' # schedPc \/ worker' # worker \/ completed' # completed)
             /\ ~(schedPc = "not_started" /\ mainPc = "init"))
             => UNCHANGED <<window, mainloop_run, mainPc>>
       /\ mainloop_run => mainloop_run'
       /\ (~mainloop_run /\ mainloop_run')
             => (mainPc = "get" /\ mainPc' = "mainloop" /\ window' = "shown")]_vars

C32_Witness ==
    /\ Running
    /\ mainloop_run
    /\ window = "shown"
    /\ mainPc = "mainloop"
    /\ Len(sent) = 2
    /\ queue = <<>>
    /\ schedPc = "join"

\* C33: while the process runs, the queue holds, in the order they were put,
\* exactly the events put and not yet taken: the events taken are the first
\* Received ones put, each taken once.  An event is added only by the scheduler
\* thread's queue.put, at the tail, and removed only by the main thread's
\* queue.get, from the head
C33_FifoHandoff ==
    /\ [](Running =>
            /\ Len(queue) <= Len(sent)
            /\ \A i \in 1..Len(queue) :
                  /\ queue[i] = sent[Received + i].ev
                  /\ sent[Received + i].phase \in BreakPhases)
    /\ [][/\ Len(queue') > Len(queue)
                => /\ schedPc = "put"
                   /\ schedPc' = "start1"
                   /\ queue' = Append(queue, BreakEvent(break_s))
                   /\ mainPc' = mainPc
          /\ (Running' /\ Len(queue') < Len(queue))
                => /\ mainPc = "get"
                   /\ mainPc' = "mainloop"
                   /\ queue' = Tail(queue)
                   /\ schedPc' = schedPc
          /\ Len(queue') = Len(queue) => (queue' = queue \/ ~Running')]_vars

C33_Witness ==
    /\ Running
    /\ Len(sent) = 3
    /\ Len(queue) = 2
    /\ mainPc = "mainloop"
    /\ queue[1].msg # queue[2].msg

\* C34: whenever the scheduler has written a snapshot to STATE_FILE, the
\* poller's get_state returns that snapshot
C34_PollerReadsStateFile ==
    state_file.exists => get_state = state_file

\* C35: the xinput calls succeeding, every device is enabled whenever the
\* scheduler is alive and not in a break (before the first phase, in a
\* pomodoro, at the counter update after a break); a device is disabled only
\* with block_input set, in a break whose disable call has been made and whose
\* enable call has not; and no step outside the two gate calls of a break
\* changes the state of a device
C35_GateOnlyAtBreakBoundaries ==
    /\ [](SchedAt("update") \/ (Running /\ phase # "break") => AllEnabled(devices))
    /\ []((\E d \in Dev : devices[d] = "floating") =>
             /\ config.block_input
             /\ phase = "break"
             /\ GateCallsIn(Len(phaseLog), "disable") = 1
             /\ GateCallsIn(Len(phaseLog), "enable") = 0)
    /\ [][devices' # devices =>
             /\ phase = "break"
             /\ \/ schedPc = "disable" /\ schedPc' = "put"
                \/ schedPc = "enable" /\ schedPc' = "update"]_vars

C35_Witness ==
    /\ Running
    /\ config.block_input
    /\ phaseLog = <<"P", "S", "P">>
    /\ \E j \in Jobs : worker[j].st = "running"
    /\ GateCallsIn(2, "disable") = 1
    /\ AllEnabled(devices)

\* C36: in every state crr_session is total_completed_sessions + 1; and a step
\* that changes one of the two changes the other as well and sets crr_cycle
\* to 1
C36_SessionCountersTogether ==
    /\ [](crr_session = total_completed_sessions + 1)
    /\ [][(crr_session' # crr_session \/ total_completed_sessions' # total_completed_sessions)
             => /\ crr_session' = crr_session + 1
                /\ total_completed_sessions' = total_completed_sessions + 1
                /\ crr_cycle' = 1]_vars

C36_Witness ==
    /\ SchedAt("top")
    /\ Len(phaseLog) = 4
    /\ crr_session = 3
    /\ total_completed_sessions = 2
    /\ crr_cycle = 1

\* C37: whenever `xinput list` succeeds, enable_input_devices leaves enabled
\* every floating device it has listed other than the one whose `xinput
\* enable` failed
C37_EnableTriesEveryDevice ==
    \A e \in {x \in XinputEnv : x.ok1} :
        LET device_ids == get_xinput_ids("FLOATING_SLAVE_PATTERN", devices, TRUE)
        IN \A i \in 1..Len(device_ids) :
               i # e.fail1 => enable_input_devices(devices, e)[device_ids[i]] = "slave"

\* C38: from every device state, disable_input_devices followed by
\* enable_input_devices, all xinput calls succeeding, gives back the device
\* state it started from: the same devices enabled, and a device that was
\* floating before still floating
C38_DisableEnableRestores ==
    enable_input_devices(disable_input_devices(devices, AllOk), AllOk) = devices

\* the number of breaks app.py has begun
BreaksBegun == Len(phaseLog) \div 2

\* C39: run on the same config, the n-th break app.py begins is of the type of
\* the n-th break of py-pomlock.py; and from the start of a pomodoro to the
\* choice of its break, py-pomlock.py's cycle_count after as many passes as
\* app.py has had breaks is crr_cycle - 1
C39_SchedulersAgree ==
    /\ \A n \in 1..BreaksBegun :
          phaseLog[2 * n] = (IF py_break_type(n, config.cycles) = "Long break"
                             THEN "L" ELSE "S")
    /\ (Running /\ phase = "break" /\ schedPc \notin {"top", "ended"})
          => break_type = py_break_type(BreaksBegun, config.cycles)
    /\ (Running /\ schedPc \in {"top", "start1", "start2", "join", "select"}
          /\ phase # "break")
          => py_cycle_count(BreaksBegun, config.cycles) = crr_cycle - 1
    /\ SchedAt("top")
          => py_cycle_count(BreaksBegun, config.cycles) = crr_cycle - 1

C39_Witness ==
    /\ SchedAt("top")
    /\ config.cycles = 2
    /\ BreaksBegun = 3
    /\ py_break_type(2, config.cycles) = "Long break"
    /\ py_cycle_count(3, config.cycles) = 1
    /\ crr_cycle = 2
====
